---------------------------- MODULE Spec2Model ----------------------------
(***************************************************************************)
(* Model of the turn handler of src/server/app.py (POST /saga): the        *)
(* persisted session record, the frost scrubber, the soulbound name token  *)
(* and the command dispatch of saga_turn.                                  *)
(*                                                                         *)
(* Strings are sequences of characters; a character is a one-character     *)
(* string, except "DAGGER" (U+2020), "LDQUO" (U+201C) and "BULLET"         *)
(* (U+2022), which stand for the one non-ASCII character each.             *)
(***************************************************************************)
EXTENDS Integers, Sequences, FiniteSets, TLC

VARIABLES
    file,       \* content of MEMORY_FILE: NoFile, Corrupt or a session record
    clock,      \* ticks of datetime.utcnow()
    log,        \* the turns handled so far, oldest first
    pc,         \* per client: where its saga_turn coroutine stands
    frame,      \* per client: the locals of its saga_turn coroutine
    running,    \* the client whose coroutine the event loop is running, or Nobody
    text,       \* the string under the scrubber (scrubber specification)
    passes      \* number of frost_scrub passes applied to text

vars == <<file, clock, log, pc, frame, running, text, passes>>

(***************************************************************************)
(* Characters and the str methods the handler uses.                        *)
(***************************************************************************)
\* "ABCDEFGHIJKLMNOPQRSTUVWXYZ"
UpperLetters == <<"A", "B", "C", "D", "E", "F", "G", "H", "I", "J", "K", "L", "M", "N", "O", "P", "Q", "R", "S", "T", "U", "V", "W", "X", "Y", "Z">>

\* "abcdefghijklmnopqrstuvwxyz"
LowerLetters == <<"a", "b", "c", "d", "e", "f", "g", "h", "i", "j", "k", "l", "m", "n", "o", "p", "q", "r", "s", "t", "u", "v", "w", "x", "y", "z">>

\* "0123456789"
DigitChars == <<"0", "1", "2", "3", "4", "5", "6", "7", "8", "9">>

Range(s) == {s[i] : i \in DOMAIN s}

IsUpper(c) == c \in Range(UpperLetters)

IsLower(c) == c \in Range(LowerLetters)

\* \s
Spaces == {" ", "\t", "\n"}

ToLower == [c \in Range(UpperLetters) |->
              LowerLetters[CHOOSE i \in DOMAIN UpperLetters : UpperLetters[i] = c]]

ToUpper == [c \in Range(LowerLetters) |->
              UpperLetters[CHOOSE i \in DOMAIN LowerLetters : LowerLetters[i] = c]]

lower_char(c) == IF c \in DOMAIN ToLower THEN ToLower[c] ELSE c

upper_char(c) == IF c \in DOMAIN ToUpper THEN ToUpper[c] ELSE c

\* str.lower()
lower(s) == [i \in DOMAIN s |-> lower_char(s[i])]

\* str.capitalize(): first character upper-cased, the rest lower-cased
capitalize(s) == [i \in DOMAIN s |-> IF i = 1 THEN upper_char(s[i]) ELSE lower_char(s[i])]

\* str.strip()
strip(s) ==
    LET keep == {i \in DOMAIN s : s[i] \notin Spaces}
    IN  IF keep = {} THEN <<>>
        ELSE SubSeq(s, CHOOSE i \in keep : \A j \in keep : i <= j,
                       CHOOSE i \in keep : \A j \in keep : j <= i)

\* str.startswith(prefix)
startswith(s, prefix) ==
    /\ Len(prefix) <= Len(s)
    /\ \A i \in DOMAIN prefix : s[i] = prefix[i]

\* case-insensitive literal match of lit in s at position i (re.IGNORECASE)
LitAt(s, i, lit) ==
    /\ i + Len(lit) - 1 <= Len(s)
    /\ \A k \in DOMAIN lit : lower_char(s[i + k - 1]) = lower_char(lit[k])

\* end of the longest run of characters of class that starts at i (less than
\* i when there is none): a greedy  [class]*
RunEnd(s, i, class) ==
    LET stops == {j \in i..Len(s) : s[j] \notin class}
    IN  IF stops = {} THEN Len(s)
        ELSE (CHOOSE j \in stops : \A k \in stops : j <= k) - 1

\* Python's None
None == <<"None">>

(***************************************************************************)
(* Frost scrubber: FROST_REGEX and frost_scrub.                            *)
(* Each Match operator gives the index of the last character of the match  *)
(* of one alternative of FROST_REGEX that starts at i, or 0 for no match.  *)
(***************************************************************************)
\* index of the first "]" after position i, or 0
FirstClose(s, i) ==
    LET closes == {j \in (i + 1)..Len(s) : s[j] = "]"}
    IN  IF closes = {} THEN 0 ELSE CHOOSE j \in closes : \A k \in closes : j <= k

\* "txt"  "pdf"  "docx"
DocExtensions == {<<"t", "x", "t">>, <<"p", "d", "f">>, <<"d", "o", "c", "x">>}

\* \[[^\]]*?\.(txt|pdf|docx)[^\]]*?\]
MatchBracketedFile(s, i) ==
    LET j == FirstClose(s, i)
    IN  IF /\ i <= Len(s)
           /\ s[i] = "["
           /\ j # 0
           /\ \E k \in (i + 1)..(j - 1) :
                 /\ s[k] = "."
                 /\ \E ext \in DocExtensions :
                       /\ k + Len(ext) < j
                       /\ LitAt(s, k + 1, ext)
        THEN j ELSE 0

\* \[[^\]]*?\]
MatchBracketed(s, i) ==
    IF i <= Len(s) /\ s[i] = "[" THEN FirstClose(s, i) ELSE 0

Alphas == Range(UpperLetters) \cup Range(LowerLetters)

Digits == Range(DigitChars)

\* [A-Za-z0-9_-]
FileIdChars == Alphas \cup Digits \cup {"_", "-"}

\* file-[A-Za-z0-9_-]+
MatchFileId(s, i) ==
    \* "file-"
    LET lit == <<"f", "i", "l", "e", "-">>
        e == RunEnd(s, i + Len(lit), FileIdChars)
    IN  IF LitAt(s, i, lit) /\ e >= i + Len(lit) THEN e ELSE 0

\* [^\s], among the characters of s
NonSpace(s) == {c \in Range(s) : c \notin Spaces}

\* /mnt/data/[^\s]+
MatchPath(s, i) ==
    \* "/mnt/data/"
    LET lit == <<"/", "m", "n", "t", "/", "d", "a", "t", "a", "/">>
        e == RunEnd(s, i + Len(lit), NonSpace(s))
    IN  IF LitAt(s, i, lit) /\ e >= i + Len(lit) THEN e ELSE 0

\* [A-Za-z0-9_]
WordChars == Alphas \cup Digits \cup {"_"}

\* DAGGER [A-Za-z0-9_]+ DAGGER L\d+-L\d+
MatchCitation(s, i) ==
    LET n  == RunEnd(s, i + 1, WordChars)      \* end of the name
        d1 == RunEnd(s, n + 3, Digits)         \* end of the first number
        d2 == RunEnd(s, d1 + 3, Digits)        \* end of the second number
    IN  IF /\ i <= Len(s) /\ s[i] = "DAGGER"
           /\ n >= i + 1
           /\ LitAt(s, n + 1, <<"DAGGER", "L">>)
           /\ d1 >= n + 3
           \* "-L"
           /\ LitAt(s, d1 + 1, <<"-", "L">>)
           /\ d2 >= d1 + 3
        THEN d2 ELSE 0

\* the first of the alternatives' match ends that is a match, or 0
FirstMatch(ends) ==
    LET hits == {k \in DOMAIN ends : ends[k] # 0}
    IN  IF hits = {} THEN 0 ELSE ends[CHOOSE k \in hits : \A h \in hits : k <= h]

\* FROST_REGEX at position i: the first alternative that matches, in order
FROST_REGEX(s, i) ==
    FirstMatch(<< MatchBracketedFile(s, i), MatchBracketed(s, i),
                  MatchFileId(s, i), MatchPath(s, i), MatchCitation(s, i) >>)

\* the start of the leftmost match at or after position i, or 0
NextMatch(s, i) ==
    LET starts == {j \in i..Len(s) : FROST_REGEX(s, j) # 0}
    IN  IF starts = {} THEN 0 ELSE CHOOSE j \in starts : \A k \in starts : j <= k

\* FROST_REGEX.sub('', s) from position i: the scan keeps the characters up
\* to the leftmost match (it starts at j), drops the match and goes on after it
RECURSIVE sub_from(_, _)
sub_step(s, i, j) ==
    IF j = 0 THEN SubSeq(s, i, Len(s))
    ELSE SubSeq(s, i, j - 1) \o sub_from(s, FROST_REGEX(s, j) + 1)

sub_from(s, i) == sub_step(s, i, NextMatch(s, i))

frost_scrub(t) == sub_from(IF t = None THEN <<>> ELSE t, 1)

(***************************************************************************)
(* Persistence: MEMORY_FILE, load_memory, save_memory.                     *)
(* A file is [state, mem]: state "absent" (no memory.json), "json" (it     *)
(* holds the record mem) or "corrupt" (a write that failed part-way left   *)
(* text json.load cannot parse).                                           *)
(***************************************************************************)
DefaultMemory ==
    [ journal        |-> <<>>,
      scars          |-> <<>>,
      soulbound      |-> None,
      paused         |-> FALSE,
      rebind_count   |-> 0,
      last_rebind_at |-> None ]

NoFile == [state |-> "absent", mem |-> DefaultMemory]

CorruptFile == [state |-> "corrupt", mem |-> DefaultMemory]

\* the file json.dump(mem) leaves when it succeeds
JsonFile(mem) == [state |-> "json", mem |-> mem]

\* load_memory(): the record json.load returns, or the defaults
load_memory(f) == IF f.state = "json" THEN f.mem ELSE DefaultMemory

\* json.load raises on a file that exists and does not parse
load_raises(f) == f.state = "corrupt"

\* A store fault: save_memory call number `at` of the turn fails (0: none),
\* in open() (the file is left as it was) or in json.dump (the file was
\* truncated by open(.., "w") and is left partly written).
NoFault == [at |-> 0, how |-> "open"]

Faults == {[at |-> k, how |-> h] : k \in 1..2, h \in {"open", "dump"}}

\* save_memory writing the fields the handler sets and an empty scars
save_memory_drops_scars(f, mem, k, fault) ==
    IF fault.at # k THEN JsonFile([mem EXCEPT !.scars = <<>>])
    ELSE IF fault.how = "open" THEN f
    ELSE CorruptFile

\* save_memory(mem), as call number k of the turn, on file f
save_memory(f, mem, k, fault) ==
    IF fault.at # k THEN JsonFile(mem)
    ELSE IF fault.how = "open" THEN f
    ELSE CorruptFile

(***************************************************************************)
(* Canon, NPC and soulbound maps; load_file_text.                          *)
(* A disk maps a file name to [state, text]: "absent", "unreadable" or     *)
(* "text".                                                                 *)
(***************************************************************************)
\* the canon map without its "commands" key
CANON_FILES_without_commands ==
    \* "covenant"  "world"  "flora"
    [ k \in {<<"c", "o", "v", "e", "n", "a", "n", "t">>, <<"w", "o", "r", "l", "d">>, <<"f", "l", "o", "r", "a">>} |->
        \* "covenant"  "Covenant of Drogvyn.txt"
        CASE k = <<"c", "o", "v", "e", "n", "a", "n", "t">> -> <<"C", "o", "v", "e", "n", "a", "n", "t", " ", "o", "f", " ", "D", "r", "o", "g", "v", "y", "n", ".", "t", "x", "t">>
          \* "world"  "Drogvyn World Setting.txt"
          [] k = <<"w", "o", "r", "l", "d">>    -> <<"D", "r", "o", "g", "v", "y", "n", " ", "W", "o", "r", "l", "d", " ", "S", "e", "t", "t", "i", "n", "g", ".", "t", "x", "t">>
          \* "flora"  "Flora & Fauna & Mineral.txt"
          [] k = <<"f", "l", "o", "r", "a">>    -> <<"F", "l", "o", "r", "a", " ", "&", " ", "F", "a", "u", "n", "a", " ", "&", " ", "M", "i", "n", "e", "r", "a", "l", ".", "t", "x", "t">> ]

CANON_FILES ==
    \* "covenant"  "world"  "flora"  "commands"
    [ k \in {<<"c", "o", "v", "e", "n", "a", "n", "t">>, <<"w", "o", "r", "l", "d">>, <<"f", "l", "o", "r", "a">>, <<"c", "o", "m", "m", "a", "n", "d", "s">>} |->
        \* "covenant"  "Covenant of Drogvyn.txt"
        CASE k = <<"c", "o", "v", "e", "n", "a", "n", "t">> -> <<"C", "o", "v", "e", "n", "a", "n", "t", " ", "o", "f", " ", "D", "r", "o", "g", "v", "y", "n", ".", "t", "x", "t">>
          \* "world"  "Drogvyn World Setting.txt"
          [] k = <<"w", "o", "r", "l", "d">>    -> <<"D", "r", "o", "g", "v", "y", "n", " ", "W", "o", "r", "l", "d", " ", "S", "e", "t", "t", "i", "n", "g", ".", "t", "x", "t">>
          \* "flora"  "Flora & Fauna & Mineral.txt"
          [] k = <<"f", "l", "o", "r", "a">>    -> <<"F", "l", "o", "r", "a", " ", "&", " ", "F", "a", "u", "n", "a", " ", "&", " ", "M", "i", "n", "e", "r", "a", "l", ".", "t", "x", "t">>
          \* "commands"  "Project Command Sheet.txt"
          [] k = <<"c", "o", "m", "m", "a", "n", "d", "s">> -> <<"P", "r", "o", "j", "e", "c", "t", " ", "C", "o", "m", "m", "a", "n", "d", " ", "S", "h", "e", "e", "t", ".", "t", "x", "t">> ]

\* "eirlys"  "Eirlys_Character_Sheet.txt"
NPC_FILES == [ k \in {<<"e", "i", "r", "l", "y", "s">>} |-> <<"E", "i", "r", "l", "y", "s", "_", "C", "h", "a", "r", "a", "c", "t", "e", "r", "_", "S", "h", "e", "e", "t", ".", "t", "x", "t">> ]

\* "drocathmor"  "dreknoth"  "thayren"  "veydran"
Roster == {<<"d", "r", "o", "c", "a", "t", "h", "m", "o", "r">>, <<"d", "r", "e", "k", "n", "o", "t", "h">>, <<"t", "h", "a", "y", "r", "e", "n">>, <<"v", "e", "y", "d", "r", "a", "n">>}

SOULBOUND_FILES ==
    [ k \in Roster |->
        \* " Abilities.txt"
        [ abilities |-> capitalize(k) \o <<" ", "A", "b", "i", "l", "i", "t", "i", "e", "s", ".", "t", "x", "t">>,
          \* " Character Sheet.txt"
          character |-> capitalize(k) \o <<" ", "C", "h", "a", "r", "a", "c", "t", "e", "r", " ", "S", "h", "e", "e", "t", ".", "t", "x", "t">> ] ]

\* load_file_text without its try/except: a failed read raises
load_file_text_uncaught(disk, path, label) ==
    IF disk[path].state = "absent"
    \* "(The frost remembers no "  " here.)"
    THEN <<"(", "T", "h", "e", " ", "f", "r", "o", "s", "t", " ", "r", "e", "m", "e", "m", "b", "e", "r", "s", " ", "n", "o", " ">> \o label \o <<" ", "h", "e", "r", "e", ".", ")">>
    ELSE IF disk[path].state = "unreadable"
    THEN None
    ELSE frost_scrub(disk[path].text)

\* load_file_text(path, label) on a disk
load_file_text(disk, path, label) ==
    IF disk[path].state = "absent"
    \* "(The frost remembers no "  " here.)"
    THEN <<"(", "T", "h", "e", " ", "f", "r", "o", "s", "t", " ", "r", "e", "m", "e", "m", "b", "e", "r", "s", " ", "n", "o", " ">> \o label \o <<" ", "h", "e", "r", "e", ".", ")">>
    ELSE IF disk[path].state = "unreadable"
    \* "(The frost cannot read the "  ".)"
    THEN <<"(", "T", "h", "e", " ", "f", "r", "o", "s", "t", " ", "c", "a", "n", "n", "o", "t", " ", "r", "e", "a", "d", " ", "t", "h", "e", " ">> \o label \o <<".", ")">>
    ELSE frost_scrub(disk[path].text)

(***************************************************************************)
(* NAME_TOKEN and parse_soulbound_token.                                   *)
(***************************************************************************)
\* NAME_TOKEN without its \s*$ : whatever follows the name is let through
NAME_TOKEN_unanchored(s) ==
    LET q  == RunEnd(s, 1, Spaces) + 1
        a  == IF q <= Len(s) /\ s[q] \in {"\"", "LDQUO"} THEN q + 1 ELSE q
        e  == RunEnd(s, a, Alphas)
    IN  IF a <= Len(s) /\ e >= a THEN SubSeq(s, a, e) ELSE None

\* ^\s*["LDQUO]?([A-Za-z]+)[\.\!\?"]?\s*$  : group 1, or None for no match
NAME_TOKEN(s) ==
    LET q  == RunEnd(s, 1, Spaces) + 1                  \* after ^\s*
        a  == IF q <= Len(s) /\ s[q] \in {"\"", "LDQUO"} THEN q + 1 ELSE q
        e  == RunEnd(s, a, Alphas)                      \* end of group 1
        z  == IF e + 1 <= Len(s) /\ s[e + 1] \in {".", "!", "?", "\""}
              THEN e + 2 ELSE e + 1
    IN  IF a <= Len(s) /\ e >= a /\ RunEnd(s, z, Spaces) = Len(s)
        THEN SubSeq(s, a, e) ELSE None

parse_soulbound_token(t) ==
    LET m == NAME_TOKEN(IF t = None THEN <<>> ELSE t)
    IN  IF m = None THEN None
        ELSE IF lower(m) \in Roster THEN lower(m) ELSE None

(***************************************************************************)
(* now_iso(): the clock reading as text.                                   *)
(***************************************************************************)
RECURSIVE Decimal(_)
Decimal(n) ==
    IF n < 10 THEN <<DigitChars[n + 1]>>
    ELSE Decimal(n \div 10) \o <<DigitChars[(n % 10) + 1]>>

\* "T"  "Z"
now_iso(now) == <<"T">> \o Decimal(now) \o <<"Z">>

(***************************************************************************)
(* saga_turn.                                                              *)
(***************************************************************************)
\* "sep".join(xs)
RECURSIVE join(_, _)
join(sep, xs) ==
    IF xs = <<>> THEN <<>>
    ELSE IF Len(xs) = 1 THEN xs[1]
    ELSE xs[1] \o sep \o join(sep, Tail(xs))

\* s.split(" ", 1)[1] for an s that holds a space
after_first_space(s) ==
    LET sp == {i \in DOMAIN s : s[i] = " "}
    IN  SubSeq(s, (CHOOSE i \in sp : \A j \in sp : i <= j) + 1, Len(s))

\* player_input of line 128
sanitize(input) == frost_scrub(strip(IF input = None THEN <<>> ELSE input))

\* the pause gate comparing the input as typed, not case-folded
pause_gate_case_sensitive(mem, player_input) ==
    /\ mem.paused
    \* "resume"  "resume..."  "begin"  "begin..."
    /\ ~\E p \in {<<"r", "e", "s", "u", "m", "e">>, <<"r", "e", "s", "u", "m", "e", ".", ".", ".">>, <<"b", "e", "g", "i", "n">>, <<"b", "e", "g", "i", "n", ".", ".", ".">>} :
           startswith(player_input, p)

\* the pause gate placed under `if player_input:`
pause_gate_nonempty(mem, player_input) ==
    /\ mem.paused
    /\ player_input # <<>>
    \* "resume"  "resume..."  "begin"  "begin..."
    /\ ~\E p \in {<<"r", "e", "s", "u", "m", "e">>, <<"r", "e", "s", "u", "m", "e", ".", ".", ".">>, <<"b", "e", "g", "i", "n">>, <<"b", "e", "g", "i", "n", ".", ".", ".">>} :
           startswith(lower(player_input), p)

\* the pause gate placed after the soulbound selection: a name passes it
pause_gate_after_names(mem, player_input) ==
    /\ mem.paused
    /\ parse_soulbound_token(player_input) = None
    \* "resume"  "resume..."  "begin"  "begin..."
    /\ ~\E p \in {<<"r", "e", "s", "u", "m", "e">>, <<"r", "e", "s", "u", "m", "e", ".", ".", ".">>, <<"b", "e", "g", "i", "n">>, <<"b", "e", "g", "i", "n", ".", ".", ".">>} :
           startswith(lower(player_input), p)

\* the pause gate of line 135
pause_gate(mem, player_input) ==
    /\ mem.paused
    \* "resume"  "resume..."  "begin"  "begin..."
    /\ ~\E p \in {<<"r", "e", "s", "u", "m", "e">>, <<"r", "e", "s", "u", "m", "e", ".", ".", ".">>, <<"b", "e", "g", "i", "n">>, <<"b", "e", "g", "i", "n", ".", ".", ".">>} :
           startswith(lower(player_input), p)

\* "The frost holds. (paused) Whisper: resume... or begin..."
PausedMsg == <<"T", "h", "e", " ", "f", "r", "o", "s", "t", " ", "h", "o", "l", "d", "s", ".", " ", "(", "p", "a", "u", "s", "e", "d", ")", " ", "W", "h", "i", "s", "p", "e", "r", ":", " ", "r", "e", "s", "u", "m", "e", ".", ".", ".", " ", "o", "r", " ", "b", "e", "g", "i", "n", ".", ".", ".">>

\* "The frost re-reads the Covenant. Memory realigns. The hunt begins."
BeginMsg == <<"T", "h", "e", " ", "f", "r", "o", "s", "t", " ", "r", "e", "-", "r", "e", "a", "d", "s", " ", "t", "h", "e", " ", "C", "o", "v", "e", "n", "a", "n", "t", ".", " ", "M", "e", "m", "o", "r", "y", " ", "r", "e", "a", "l", "i", "g", "n", "s", ".", " ", "T", "h", "e", " ", "h", "u", "n", "t", " ", "b", "e", "g", "i", "n", "s", ".">>

\* "The frost holds. Breath is stilled until you whisper: resume..."
PauseMsg == <<"T", "h", "e", " ", "f", "r", "o", "s", "t", " ", "h", "o", "l", "d", "s", ".", " ", "B", "r", "e", "a", "t", "h", " ", "i", "s", " ", "s", "t", "i", "l", "l", "e", "d", " ", "u", "n", "t", "i", "l", " ", "y", "o", "u", " ", "w", "h", "i", "s", "p", "e", "r", ":", " ", "r", "e", "s", "u", "m", "e", ".", ".", ".">>

\* "Breath returns. The frost moves again."
ResumeMsg == <<"B", "r", "e", "a", "t", "h", " ", "r", "e", "t", "u", "r", "n", "s", ".", " ", "T", "h", "e", " ", "f", "r", "o", "s", "t", " ", "m", "o", "v", "e", "s", " ", "a", "g", "a", "i", "n", ".">>

\* "The frost waits. No soul has been bound yet."
WaitsMsg == <<"T", "h", "e", " ", "f", "r", "o", "s", "t", " ", "w", "a", "i", "t", "s", ".", " ", "N", "o", " ", "s", "o", "u", "l", " ", "h", "a", "s", " ", "b", "e", "e", "n", " ", "b", "o", "u", "n", "d", " ", "y", "e", "t", ".">>

\* "(The frost has kept no words yet.)"
NoWordsMsg == <<"(", "T", "h", "e", " ", "f", "r", "o", "s", "t", " ", "h", "a", "s", " ", "k", "e", "p", "t", " ", "n", "o", " ", "w", "o", "r", "d", "s", " ", "y", "e", "t", ".", ")">>

CommandsMsg ==
    \* "Whisper:\n<BULLET> Drocathmor. / Dreknoth. / Thayren. / Veydran.\n"
    <<"W", "h", "i", "s", "p", "e", "r", ":", "\n", "BULLET", " ", "D", "r", "o", "c", "a", "t", "h", "m", "o", "r", ".", " ", "/", " ", "D", "r", "e", "k", "n", "o", "t", "h", ".", " ", "/", " ", "T", "h", "a", "y", "r", "e", "n", ".", " ", "/", " ", "V", "e", "y", "d", "r", "a", "n", ".", "\n">>
    \* "<BULLET> begin... / pause... / resume...\n<BULLET> journal...\n<BULLET> abilities {Name}\n"
    \o <<"BULLET", " ", "b", "e", "g", "i", "n", ".", ".", ".", " ", "/", " ", "p", "a", "u", "s", "e", ".", ".", ".", " ", "/", " ", "r", "e", "s", "u", "m", "e", ".", ".", ".", "\n", "BULLET", " ", "j", "o", "u", "r", "n", "a", "l", ".", ".", ".", "\n", "BULLET", " ", "a", "b", "i", "l", "i", "t", "i", "e", "s", " ", "{", "N", "a", "m", "e", "}", "\n">>
    \* "<BULLET> character {Name}\n<BULLET> covenant / world / flora / commands\n<BULLET> npc eirlys"
    \o <<"BULLET", " ", "c", "h", "a", "r", "a", "c", "t", "e", "r", " ", "{", "N", "a", "m", "e", "}", "\n", "BULLET", " ", "c", "o", "v", "e", "n", "a", "n", "t", " ", "/", " ", "w", "o", "r", "l", "d", " ", "/", " ", "f", "l", "o", "r", "a", " ", "/", " ", "c", "o", "m", "m", "a", "n", "d", "s", "\n", "BULLET", " ", "n", "p", "c", " ", "e", "i", "r", "l", "y", "s">>

SealsMsg(chosen) ==
    \* "The frostline seals: "
    <<"T", "h", "e", " ", "f", "r", "o", "s", "t", "l", "i", "n", "e", " ", "s", "e", "a", "l", "s", ":", " ">> \o chosen
    \* " rises as the soulbound.\nAll other names fade beneath the ice."
    \o <<" ", "r", "i", "s", "e", "s", " ", "a", "s", " ", "t", "h", "e", " ", "s", "o", "u", "l", "b", "o", "u", "n", "d", ".", "\n", "A", "l", "l", " ", "o", "t", "h", "e", "r", " ", "n", "a", "m", "e", "s", " ", "f", "a", "d", "e", " ", "b", "e", "n", "e", "a", "t", "h", " ", "t", "h", "e", " ", "i", "c", "e", ".">>

\* "The frost remembers: "  " already walks alone."
AlreadyMsg(chosen) == <<"T", "h", "e", " ", "f", "r", "o", "s", "t", " ", "r", "e", "m", "e", "m", "b", "e", "r", "s", ":", " ">> \o chosen \o <<" ", "a", "l", "r", "e", "a", "d", "y", " ", "w", "a", "l", "k", "s", " ", "a", "l", "o", "n", "e", ".">>

RejectsMsg(bound) ==
    \* "The frost rejects this name. The soulbound is already "  "."
    <<"T", "h", "e", " ", "f", "r", "o", "s", "t", " ", "r", "e", "j", "e", "c", "t", "s", " ", "t", "h", "i", "s", " ", "n", "a", "m", "e", ".", " ", "T", "h", "e", " ", "s", "o", "u", "l", "b", "o", "u", "n", "d", " ", "i", "s", " ", "a", "l", "r", "e", "a", "d", "y", " ">> \o bound \o <<".">>

DeniesAbilitiesMsg(bound) ==
    \* "The frost denies you. Only "  " may be remembered."
    <<"T", "h", "e", " ", "f", "r", "o", "s", "t", " ", "d", "e", "n", "i", "e", "s", " ", "y", "o", "u", ".", " ", "O", "n", "l", "y", " ">> \o bound \o <<" ", "m", "a", "y", " ", "b", "e", " ", "r", "e", "m", "e", "m", "b", "e", "r", "e", "d", ".">>

DeniesCharacterMsg(bound) ==
    \* "The frost denies you. Only "  " may walk here."
    <<"T", "h", "e", " ", "f", "r", "o", "s", "t", " ", "d", "e", "n", "i", "e", "s", " ", "y", "o", "u", ".", " ", "O", "n", "l", "y", " ">> \o bound \o <<" ", "m", "a", "y", " ", "w", "a", "l", "k", " ", "h", "e", "r", "e", ".">>

\* "The frost remembers no NPC named "  "."
NoNpcMsg(npc) == <<"T", "h", "e", " ", "f", "r", "o", "s", "t", " ", "r", "e", "m", "e", "m", "b", "e", "r", "s", " ", "n", "o", " ", "N", "P", "C", " ", "n", "a", "m", "e", "d", " ">> \o npc \o <<".">>

\* "The frost remembers: "
EchoMsg(player_input) == <<"T", "h", "e", " ", "f", "r", "o", "s", "t", " ", "r", "e", "m", "e", "m", "b", "e", "r", "s", ":", " ">> \o player_input

\* what a branch hands back: the record as mutated, whether the branch calls
\* save_memory, the response before its last scrub, and the branch taken
Outcome(mem, saves, response, branch) ==
    [mem |-> mem, saves |-> saves, response |-> response, branch |-> branch]

\* the selection without the guard of line 142: a later name rebinds
soulbound_selection_rebinds(mem, token) ==
    LET chosen == capitalize(token)
    IN  IF mem.soulbound # None /\ lower(mem.soulbound) = token
        THEN Outcome(mem, FALSE, AlreadyMsg(chosen), "already")
        ELSE Outcome([mem EXCEPT !.soulbound = chosen], TRUE, SealsMsg(chosen), "bind")

\* lines 138-148
soulbound_selection(mem, token) ==
    LET chosen == capitalize(token)
    IN  IF mem.soulbound = None
        THEN Outcome([mem EXCEPT !.soulbound = chosen], TRUE, SealsMsg(chosen), "bind")
        ELSE IF lower(mem.soulbound) = token
        THEN Outcome(mem, FALSE, AlreadyMsg(chosen), "already")
        ELSE Outcome(mem, FALSE, RejectsMsg(mem.soulbound), "reject")

\* the append placed after the pause gate: a gated turn is not journaled
journal_append_after_gate(mem, player_input) ==
    IF player_input # <<>> /\ ~pause_gate(mem, player_input)
    THEN [mem EXCEPT !.journal = Append(@, player_input)]
    ELSE mem

\* the append that keeps the journal command itself out of the journal
journal_append_skips_dump(mem, player_input) ==
    \* "journal"
    IF player_input # <<>> /\ ~startswith(lower(player_input), <<"j", "o", "u", "r", "n", "a", "l">>)
    THEN [mem EXCEPT !.journal = Append(@, player_input)]
    ELSE mem

\* line 132
journal_append(mem, player_input) ==
    IF player_input # <<>>
    THEN [mem EXCEPT !.journal = Append(@, player_input)]
    ELSE mem

\* begin with  rebind_count = 1  for  rebind_count += 1
begin_command_resets(mem, now) ==
    [mem EXCEPT !.rebind_count = 1,
                !.last_rebind_at = now_iso(now),
                !.paused = FALSE]

\* lines 153-155
begin_command(mem, now) ==
    [mem EXCEPT !.rebind_count = @ + 1,
                !.last_rebind_at = now_iso(now),
                !.paused = FALSE]

\* line 159
pause_command(mem) == [mem EXCEPT !.paused = TRUE]

\* line 163
resume_command(mem) == [mem EXCEPT !.paused = FALSE]

\* the prefixes of lines 172, 195 and 205, each with its single space
\* "npc "
NpcPrefix == <<"n", "p", "c", " ">>

\* `abilities` with no space after it
\* "abilities"
AbilitiesPrefix_bare == <<"a", "b", "i", "l", "i", "t", "i", "e", "s">>

\* "abilities "
AbilitiesPrefix == <<"a", "b", "i", "l", "i", "t", "i", "e", "s", " ">>

\* "character "
CharacterPrefix == <<"c", "h", "a", "r", "a", "c", "t", "e", "r", " ">>

\* s.split(" ", 1) has a second part
splits(s) == \E i \in DOMAIN s : s[i] = " "

\* a branch that raised: the handler ends there without a response
Raised(mem, branch) == Outcome(mem, FALSE, None, branch)

\* the lookup that serves the sheet of whichever roster name is asked for
gated_lookup_any_name(mem, player_input, disk, kind) ==
    LET token == parse_soulbound_token(after_first_space(player_input))
    IN  IF mem.soulbound = None
        THEN Outcome(mem, FALSE, WaitsMsg, "waits")
        ELSE IF ~splits(player_input)
        THEN Raised(mem, kind)
        ELSE IF token = None
        THEN Outcome(mem, FALSE,
                     IF kind = "abilities" THEN DeniesAbilitiesMsg(mem.soulbound)
                     ELSE DeniesCharacterMsg(mem.soulbound), "denies")
        ELSE Outcome(mem, FALSE,
                     IF kind = "abilities"
                     \* "abilities"
                     THEN load_file_text(disk, SOULBOUND_FILES[token].abilities, <<"a", "b", "i", "l", "i", "t", "i", "e", "s">>)
                     \* "character sheet"
                     ELSE load_file_text(disk, SOULBOUND_FILES[token].character, <<"c", "h", "a", "r", "a", "c", "t", "e", "r", " ", "s", "h", "e", "e", "t">>),
                     kind)

\* lines 194-212, kind "abilities" or "character"; the unpacking of
\* lines 198 and 208 raises ValueError when the input holds no space
gated_lookup(mem, player_input, disk, kind) ==
    LET token == parse_soulbound_token(after_first_space(player_input))
    IN  IF mem.soulbound = None
        THEN Outcome(mem, FALSE, WaitsMsg, "waits")
        ELSE IF ~splits(player_input)
        THEN Raised(mem, kind)
        ELSE IF token = None \/ lower(mem.soulbound) # token
        THEN Outcome(mem, FALSE,
                     IF kind = "abilities" THEN DeniesAbilitiesMsg(mem.soulbound)
                     ELSE DeniesCharacterMsg(mem.soulbound), "denies")
        ELSE Outcome(mem, FALSE,
                     IF kind = "abilities"
                     \* "abilities"
                     THEN load_file_text(disk, SOULBOUND_FILES[token].abilities, <<"a", "b", "i", "l", "i", "t", "i", "e", "s">>)
                     \* "character sheet"
                     ELSE load_file_text(disk, SOULBOUND_FILES[token].character, <<"c", "h", "a", "r", "a", "c", "t", "e", "r", " ", "s", "h", "e", "e", "t">>),
                     kind)

\* lines 138-215: the dispatch after the pause gate
route(mem, player_input, now, disk) ==
    LET token == parse_soulbound_token(player_input)
        low   == lower(player_input)
    IN  IF token # None THEN soulbound_selection(mem, token)
        \* "begin"  "begin..."
        ELSE IF low \in {<<"b", "e", "g", "i", "n">>, <<"b", "e", "g", "i", "n", ".", ".", ".">>}
        THEN Outcome(begin_command(mem, now), TRUE, BeginMsg, "begin")
        \* "pause"  "pause..."
        ELSE IF low \in {<<"p", "a", "u", "s", "e">>, <<"p", "a", "u", "s", "e", ".", ".", ".">>}
        THEN Outcome(pause_command(mem), TRUE, PauseMsg, "pause")
        \* "resume"  "resume..."
        ELSE IF low \in {<<"r", "e", "s", "u", "m", "e">>, <<"r", "e", "s", "u", "m", "e", ".", ".", ".">>}
        THEN Outcome(resume_command(mem), TRUE, ResumeMsg, "resume")
        ELSE IF low \in DOMAIN CANON_FILES
        THEN Outcome(mem, FALSE, load_file_text(disk, CANON_FILES[low], low), "canon")
        ELSE IF startswith(low, NpcPrefix)
        THEN LET npc == strip(after_first_space(low))
             IN  IF ~splits(low)
                 THEN Raised(mem, "npc")
                 ELSE IF npc \in DOMAIN NPC_FILES
                 THEN Outcome(mem, FALSE,
                              \* "NPC "
                              load_file_text(disk, NPC_FILES[npc], <<"N", "P", "C", " ">> \o npc), "npc")
                 ELSE Outcome(mem, FALSE, NoNpcMsg(npc), "no_npc")
        \* "journal"
        ELSE IF startswith(low, <<"j", "o", "u", "r", "n", "a", "l">>)
        THEN Outcome(mem, FALSE,
                     \* "\n"  "\n"
                     IF join(<<"\n">>, mem.journal) # <<>> THEN join(<<"\n">>, mem.journal)
                     ELSE NoWordsMsg, "journal")
        \* "commands"
        ELSE IF startswith(low, <<"c", "o", "m", "m", "a", "n", "d", "s">>)
        THEN Outcome(mem, FALSE, CommandsMsg, "commands")
        ELSE IF startswith(low, AbilitiesPrefix)
        THEN gated_lookup(mem, player_input, disk, "abilities")
        ELSE IF startswith(low, CharacterPrefix)
        THEN gated_lookup(mem, player_input, disk, "character")
        ELSE Outcome(mem, FALSE, EchoMsg(player_input), "echo")

\* the result of one turn: the file it leaves, whether it returned a response
\* ("ok") or raised ("error"), the response, and its load_memory and
\* save_memory calls
Result(f, status, response, branch, player_input, reads, writes) ==
    [ file |-> f, status |-> status, response |-> response, branch |-> branch,
      player_input |-> player_input, reads |-> reads, writes |-> writes ]

\* lines 138-215 once a branch has run: a branch that raised ends the turn
\* in an error; else its save_memory call, if it makes one, is call number
\* w1 + 1 of the turn; then the response is scrubbed
after_route(f1, out, player_input, w1, fault) ==
    IF out.response = None
    THEN Result(f1, "error", None, out.branch, player_input, 1, w1)
    ELSE IF out.saves /\ fault.at = w1 + 1
    THEN Result(save_memory(f1, out.mem, w1 + 1, fault), "error", None,
                out.branch, player_input, 1, w1 + 1)
    ELSE IF out.saves
    THEN Result(save_memory(f1, out.mem, w1 + 1, fault), "ok",
                frost_scrub(out.response), out.branch, player_input, 1, w1 + 1)
    ELSE Result(f1, "ok", frost_scrub(out.response), out.branch, player_input, 1, w1)

\* the handler without its pause gate
after_append_ungated(f1, mem, player_input, w1, now, disk, fault) ==
    after_route(f1, route(mem, player_input, now, disk), player_input, w1, fault)

\* lines 135-215: the pause gate, then the dispatch, on the record mem as
\* appended to and the file f1 as left by the w1 writes so far
after_append(f1, mem, player_input, w1, now, disk, fault) ==
    IF pause_gate(mem, player_input)
    THEN Result(f1, "ok", frost_scrub(PausedMsg), "gate", player_input, 1, w1)
    ELSE after_route(f1, route(mem, player_input, now, disk), player_input, w1, fault)

\* lines 131-215 on the record mem0 as loaded
after_load(f, mem0, player_input, now, disk, fault) ==
    IF player_input = <<>>
    THEN after_append(f, mem0, player_input, 0, now, disk, fault)
    ELSE IF fault.at = 1
    THEN Result(save_memory(f, journal_append(mem0, player_input), 1, fault),
                "error", None, "append", player_input, 1, 1)
    ELSE after_append(save_memory(f, journal_append(mem0, player_input), 1, fault),
                      journal_append(mem0, player_input), player_input, 1,
                      now, disk, fault)

\* lines 129-215 on the sanitized input
after_sanitize(f, player_input, now, disk, fault) ==
    IF load_raises(f)
    THEN Result(f, "error", None, "load", player_input, 1, 0)
    ELSE after_load(f, load_memory(f), player_input, now, disk, fault)

\* saga_turn on file f with request body input, clock reading now, the disk
\* of text files, and the store fault that strikes during the turn
saga_turn(f, input, now, disk, fault) ==
    after_sanitize(f, sanitize(input), now, disk, fault)

(***************************************************************************)
(* The turns of one session, one after the other.                          *)
(***************************************************************************)
MaxTurns == 3

Clients == {"c1", "c2"}

Nobody == "nobody"

NoFrame == [input |-> None, player_input |-> <<>>, mem |-> DefaultMemory, before |-> NoFile]

TurnInputs ==
    \* "Drocathmor."  "[ref.txt] "dreKNOTH""  "Drocathmor walks"
    { None, <<"D", "r", "o", "c", "a", "t", "h", "m", "o", "r", ".">>, <<"[", "r", "e", "f", ".", "t", "x", "t", "]", " ", "\"", "d", "r", "e", "K", "N", "O", "T", "H", "\"">>, <<"D", "r", "o", "c", "a", "t", "h", "m", "o", "r", " ", "w", "a", "l", "k", "s">>,
      \* "begin"  "BEGIN..."  "pause"  "Pause..."  "Resume..."  "resume now"
      <<"b", "e", "g", "i", "n">>, <<"B", "E", "G", "I", "N", ".", ".", ".">>, <<"p", "a", "u", "s", "e">>, <<"P", "a", "u", "s", "e", ".", ".", ".">>, <<"R", "e", "s", "u", "m", "e", ".", ".", ".">>, <<"r", "e", "s", "u", "m", "e", " ", "n", "o", "w">>,
      \* "journal"  "covenant"  "[x]"
      <<"j", "o", "u", "r", "n", "a", "l">>, <<"c", "o", "v", "e", "n", "a", "n", "t">>, <<"[", "x", "]">> }

\* "lore [map.pdf]of ice"
SomeText == <<"l", "o", "r", "e", " ", "[", "m", "a", "p", ".", "p", "d", "f", "]", "o", "f", " ", "i", "c", "e">>

DiskNames ==
    {CANON_FILES[k] : k \in DOMAIN CANON_FILES}
    \cup {NPC_FILES[k] : k \in DOMAIN NPC_FILES}
    \cup {SOULBOUND_FILES[k].abilities : k \in Roster}
    \cup {SOULBOUND_FILES[k].character : k \in Roster}

\* every text file is there, and its text names it
\* " "
DiskFull == [n \in DiskNames |-> [state |-> "text", text |-> n \o <<" ">> \o SomeText]]

\* no text file is there
DiskEmpty == [n \in DiskNames |-> [state |-> "absent", text |-> <<>>]]

Disks == {DiskFull, DiskEmpty}

\* the entry of the log for a finished turn: what it was given (the sanitized
\* input, the file as loaded) and what it gave back
Entry(before, r) ==
    [ player_input |-> r.player_input, branch |-> r.branch, status |-> r.status,
      response |-> r.response, reads |-> r.reads, writes |-> r.writes,
      before |-> before ]

Init ==
    /\ file = NoFile
    /\ clock = 0
    /\ log = <<>>
    /\ pc = [c \in Clients |-> "idle"]
    /\ frame = [c \in Clients |-> NoFrame]
    /\ running = Nobody
    /\ text = <<>>
    /\ passes = 0

\* a turn that loaded the file `before` ends with result r
Handled(before, r) ==
    /\ file' = r.file
    /\ log' = Append(log, Entry(before, r))

\* one POST /saga, from request to response, with no store fault
Turn(input, disk) ==
    /\ Len(log) < MaxTurns
    /\ Handled(file, saga_turn(file, input, clock + 1, disk, NoFault))
    /\ clock' = clock + 1
    /\ UNCHANGED <<pc, frame, running, text, passes>>

Next == \E input \in TurnInputs, disk \in Disks : Turn(input, disk)

Spec == Init /\ [][Next]_vars

\* the persisted session record
Persisted == load_memory(file)

\* the last turn handled, and the record it loaded
Last == log[Len(log)]

Before == load_memory(Last.before)

(***************************************************************************)
(* Properties of the turns of one session (specification Spec).            *)
(***************************************************************************)
\* the fields of a record other than the journal
NonJournal(mem) ==
    [ soulbound |-> mem.soulbound, paused |-> mem.paused,
      rebind_count |-> mem.rebind_count, last_rebind_at |-> mem.last_rebind_at,
      scars |-> mem.scars ]

\* the journal a turn with this sanitized input must leave
Journaled(journal, player_input) ==
    IF player_input # <<>> THEN Append(journal, player_input) ELSE journal

\* "begin"  "begin..."
IsBeginCmd(player_input) == lower(player_input) \in {<<"b", "e", "g", "i", "n">>, <<"b", "e", "g", "i", "n", ".", ".", ".">>}

\* "pause"  "pause..."
IsPauseCmd(player_input) == lower(player_input) \in {<<"p", "a", "u", "s", "e">>, <<"p", "a", "u", "s", "e", ".", ".", ".">>}

\* "resume"  "resume..."
IsResumeCmd(player_input) == lower(player_input) \in {<<"r", "e", "s", "u", "m", "e">>, <<"r", "e", "s", "u", "m", "e", ".", ".", ".">>}

StartsWithResumeOrBegin(player_input) ==
    \* "resume"
    \/ startswith(lower(player_input), <<"r", "e", "s", "u", "m", "e">>)
    \* "begin"
    \/ startswith(lower(player_input), <<"b", "e", "g", "i", "n">>)

\* the roster name n, after an optional opening quote and before at most one
\* of . ! ? or a closing quote, is the whole trimmed input (any letter case)
IsNameOf(player_input, n) ==
    \E open \in {<<>>, <<"\"">>, <<"LDQUO">>},
       \* "."  "!"  "?"
       close \in {<<>>, <<".">>, <<"!">>, <<"?">>, <<"\"">>} :
        lower(strip(player_input)) = open \o n \o close

\* the trimmed input holds white space: it is more than one word
IsMultiWord(player_input) ==
    \E i \in DOMAIN strip(player_input) : strip(player_input)[i] \in Spaces

\* C1: once the persisted soulbound is non-null, it has the same value in
\* every later state: whatever record a turn loaded with a soulbound set, the
\* record persisted now holds that same soulbound.
SoulboundSetOnce ==
    \A i \in DOMAIN log :
        load_memory(log[i].before).soulbound # None =>
            Persisted.soulbound = load_memory(log[i].before).soulbound

\* a different roster name was tried on a bound session
SoulboundSetOnceWitness ==
    /\ Len(log) = 3
    \* "Drocathmor"
    /\ Before.soulbound = <<"D", "r", "o", "c", "a", "t", "h", "m", "o", "r">>
    \* "dreknoth"
    /\ IsNameOf(Last.player_input, <<"d", "r", "e", "k", "n", "o", "t", "h">>)
    /\ \E i \in DOMAIN log : log[i].branch = "bind"

\* C2: the persisted journal holds exactly the non-empty sanitized inputs of
\* the turns so far, in order, one entry per such turn, whatever branch
\* handled the turn; a turn with empty input adds nothing.
JournalCountsTurns ==
    LET said == SelectSeq(log, LAMBDA e : e.player_input # <<>>)
    IN  /\ Persisted.journal = [i \in DOMAIN said |-> said[i].player_input]
        /\ Len(Persisted.journal)
             = Cardinality({i \in DOMAIN log : log[i].player_input # <<>>})
        /\ log # <<>> =>
             Persisted.journal = Journaled(Before.journal, Last.player_input)

\* a gated turn with words and an empty turn in one session
JournalCountsTurnsWitness ==
    /\ \E i \in DOMAIN log : log[i].branch = "gate" /\ log[i].player_input # <<>>
    /\ \E i \in DOMAIN log : log[i].player_input = <<>>
    /\ Len(Persisted.journal) = 2

\* C3: a turn that starts paused with an input that does not start with
\* resume or begin (case-folded) returns the fixed "frost holds" message and
\* changes nothing of the record but the journal append.
PauseGateHolds ==
    (log # <<>> /\ Before.paused /\ ~StartsWithResumeOrBegin(Last.player_input)) =>
        /\ Last.status = "ok"
        /\ Last.response = PausedMsg
        /\ NonJournal(Persisted) = NonJournal(Before)
        /\ Persisted.journal = Journaled(Before.journal, Last.player_input)

\* the empty input given to a paused session, after a roster name was
PauseGateHoldsWitness ==
    /\ Len(log) = 3
    /\ Before.paused
    /\ Before.soulbound = None
    /\ Last.player_input = <<>>
    \* "drocathmor"
    /\ IsNameOf(log[2].player_input, <<"d", "r", "o", "c", "a", "t", "h", "m", "o", "r">>)
    /\ log[2].branch = "gate"

\* C4: a fresh session is not paused; a turn takes paused from false to true
\* only if it is a pause command, from true to false only if it is a begin or
\* resume command, and every begin or resume command given while paused
\* leaves paused false.
PausedTransitions ==
    /\ log = <<>> => ~Persisted.paused
    /\ log # <<>> =>
         /\ (~Before.paused /\ Persisted.paused) => IsPauseCmd(Last.player_input)
         /\ (Before.paused /\ ~Persisted.paused) =>
               (IsBeginCmd(Last.player_input) \/ IsResumeCmd(Last.player_input))
         /\ (Before.paused /\ (IsBeginCmd(Last.player_input) \/ IsResumeCmd(Last.player_input)))
               => ~Persisted.paused

\* a resume in capitals given while paused
PausedTransitionsWitness ==
    /\ log # <<>>
    /\ Before.paused
    \* "Resume..."
    /\ Last.player_input = <<"R", "e", "s", "u", "m", "e", ".", ".", ".">>
    /\ ~Persisted.paused

\* C5: every begin command, paused or not, adds exactly 1 to rebind_count,
\* sets last_rebind_at to the current time and clears paused; no other turn
\* changes rebind_count or last_rebind_at; so rebind_count is the number of
\* begin turns so far.
BeginRebinds ==
    /\ Persisted.rebind_count
         = Cardinality({i \in DOMAIN log : IsBeginCmd(log[i].player_input)})
    /\ log # <<>> =>
         IF IsBeginCmd(Last.player_input)
         THEN /\ Persisted.rebind_count = Before.rebind_count + 1
              /\ Persisted.last_rebind_at = now_iso(clock)
              /\ ~Persisted.paused
         ELSE /\ Persisted.rebind_count = Before.rebind_count
              /\ Persisted.last_rebind_at = Before.last_rebind_at

\* a second begin, given while paused
BeginRebindsWitness ==
    /\ log # <<>>
    /\ Before.paused
    /\ IsBeginCmd(Last.player_input)
    /\ Persisted.rebind_count = 2

NameTokenMultiWordWitness ==
    /\ log # <<>>
    /\ ~Before.paused
    /\ Before.soulbound = None
    /\ IsMultiWord(Last.player_input)
    \* "drocathmor"
    /\ startswith(lower(Last.player_input), <<"d", "r", "o", "c", "a", "t", "h", "m", "o", "r">>)

\* C8: every turn reads the session record exactly once and writes it at
\* most once.
OneReadAtMostOneWrite ==
    \A i \in DOMAIN log : log[i].reads = 1 /\ log[i].writes <= 1

\* C9: a turn that fails leaves the persisted record exactly as it was before
\* the turn: no failed turn leaves its journal append persisted without its
\* command mutation, nor a partly written record.
FailedTurnLeavesNoTrace ==
    \A i \in DOMAIN log :
        log[i].status = "error" =>
            (IF i = Len(log) THEN file ELSE log[i + 1].before) = log[i].before

(***************************************************************************)
(* The same turns when the store can fail (specification SpecFault).       *)
(***************************************************************************)
\* "Drocathmor."  "begin"  "pause"  "hello"
FaultInputs == {None, <<"D", "r", "o", "c", "a", "t", "h", "m", "o", "r", ".">>, <<"b", "e", "g", "i", "n">>, <<"p", "a", "u", "s", "e">>, <<"h", "e", "l", "l", "o">>}

\* a turn that loaded the file `before` ends by raising, with result r
HandledFailing(before, r) ==
    /\ r.status = "error"
    /\ Handled(before, r)

\* one POST /saga during which save_memory raises: the handler stops there
\* and the request fails
FailedTurn(input, disk, fault) ==
    /\ Len(log) < MaxTurns
    /\ HandledFailing(file, saga_turn(file, input, clock + 1, disk, fault))
    /\ clock' = clock + 1
    /\ UNCHANGED <<pc, frame, running, text, passes>>

NextFault ==
    \/ \E input \in FaultInputs : Turn(input, DiskEmpty)
    \/ \E input \in FaultInputs, fault \in Faults : FailedTurn(input, DiskEmpty, fault)

SpecFault == Init /\ [][NextFault]_vars

(***************************************************************************)
(* Concurrent requests (specification SpecConc).  saga_turn is a coroutine *)
(* on the event loop: the loop runs one coroutine at a time and takes      *)
(* another only when the running one awaits.  Its one await is             *)
(* `await request.json()` (line 127); load_memory, save_memory and the     *)
(* text reads are blocking calls.  pc: "idle" (no request), "json"         *)
(* (suspended at line 127), "loaded" (after line 129), "appended" (after   *)
(* line 133).                                                              *)
(***************************************************************************)
\* "Drocathmor."  "dreknoth"  "pause"  "hello"
ConcInputs == {None, <<"D", "r", "o", "c", "a", "t", "h", "m", "o", "r", ".">>, <<"d", "r", "e", "k", "n", "o", "t", "h">>, <<"p", "a", "u", "s", "e">>, <<"h", "e", "l", "l", "o">>}

\* a coroutine that awaited where it holds the loaded record
YieldsAfterLoad == {"json", "loaded"}

\* the program points at which saga_turn awaits
Yields == {"json"}

\* the event loop can run the next step of c's coroutine
CanRun(c) == running = c \/ (running = Nobody /\ pc[c] \in Yields)

\* who runs once the coroutine of c has reached label
Runner(c, label) == IF label \in Yields \cup {"idle"} THEN Nobody ELSE c

\* a request arrives: its coroutine starts and awaits the body (line 127)
Receive(c, input) ==
    /\ pc[c] = "idle"
    /\ running = Nobody
    /\ Len(log) + Cardinality({d \in Clients : pc[d] # "idle"}) < MaxTurns
    /\ pc' = [pc EXCEPT ![c] = "json"]
    /\ frame' = [frame EXCEPT ![c] = [NoFrame EXCEPT !.input = input]]
    /\ UNCHANGED <<file, clock, log, running, text, passes>>

\* lines 128-129
Load(c) ==
    /\ pc[c] = "json"
    /\ CanRun(c)
    /\ ~load_raises(file)
    /\ frame' = [frame EXCEPT ![c] =
                   [ input |-> frame[c].input,
                     player_input |-> sanitize(frame[c].input),
                     mem |-> load_memory(file),
                     before |-> file ]]
    /\ pc' = [pc EXCEPT ![c] = "loaded"]
    /\ running' = Runner(c, "loaded")
    /\ UNCHANGED <<file, clock, log, text, passes>>

\* lines 131-133
AppendSave(c) ==
    /\ pc[c] = "loaded"
    /\ CanRun(c)
    /\ frame' = [frame EXCEPT ![c].mem =
                   journal_append(frame[c].mem, frame[c].player_input)]
    /\ file' = IF frame[c].player_input # <<>>
               THEN save_memory(file, journal_append(frame[c].mem, frame[c].player_input),
                                1, NoFault)
               ELSE file
    /\ pc' = [pc EXCEPT ![c] = "appended"]
    /\ running' = Runner(c, "appended")
    /\ UNCHANGED <<clock, log, text, passes>>

\* lines 135-215
Dispatch(c) ==
    /\ pc[c] = "appended"
    /\ CanRun(c)
    /\ Handled(frame[c].before,
               after_append(file, frame[c].mem, frame[c].player_input,
                            IF frame[c].player_input # <<>> THEN 1 ELSE 0,
                            clock + 1, DiskEmpty, NoFault))
    /\ clock' = clock + 1
    /\ pc' = [pc EXCEPT ![c] = "idle"]
    /\ frame' = [frame EXCEPT ![c] = NoFrame]
    /\ running' = Nobody
    /\ UNCHANGED <<text, passes>>

NextConc ==
    \E c \in Clients :
        \/ \E input \in ConcInputs : Receive(c, input)
        \/ Load(c)
        \/ AppendSave(c)
        \/ Dispatch(c)

SpecConc == Init /\ [][NextConc]_vars

\* s is a prefix of t
IsPrefix(s, t) == Len(s) <= Len(t) /\ SubSeq(t, 1, Len(s)) = s

\* C7: the load, mutate and save steps of two concurrent turns never
\* interleave (at most one turn is between its load and its last save), so no
\* journal append is lost (every step leaves the old journal as a prefix of
\* the new, and the journal holds one entry per turn with non-empty input
\* that has appended) and a persisted soulbound is never overwritten.
TurnsSerialized ==
    /\ [](Cardinality({c \in Clients : pc[c] \in {"loaded", "appended"}}) <= 1)
    /\ [](Len(Persisted.journal)
            = Cardinality({i \in DOMAIN log : log[i].player_input # <<>>})
              + Cardinality({c \in Clients :
                    pc[c] = "appended" /\ frame[c].player_input # <<>>}))
    /\ [][ /\ IsPrefix(Persisted.journal, Persisted.journal')
           /\ Persisted.soulbound # None => Persisted.soulbound' = Persisted.soulbound
         ]_vars

\* a turn binds a soulbound while the request of another client, which names
\* another soulbound, is suspended awaiting its body
TurnsSerializedWitness ==
    /\ pc["c1"] = "json"
    \* "dreknoth"
    /\ frame["c1"].input = <<"d", "r", "e", "k", "n", "o", "t", "h">>
    /\ pc["c2"] = "appended"
    \* "Drocathmor."
    /\ frame["c2"].player_input = <<"D", "r", "o", "c", "a", "t", "h", "m", "o", "r", ".">>
    /\ Len(log) = 1

(***************************************************************************)
(* Scrubber specification: a string assembled from pieces is scrubbed      *)
(* again and again.                                                        *)
(***************************************************************************)
MaxPieces == 3

MaxPasses == 2

Pieces ==
    \* "fi"  "le-a"  "[x]"  "["  "]"  "[a.TXT]"  " "  "b"
    { <<"f", "i">>, <<"l", "e", "-", "a">>, <<"[", "x", "]">>, <<"[">>, <<"]">>, <<"[", "a", ".", "T", "X", "T", "]">>, <<" ">>, <<"b">>,
      \* "/mnt/data/"  "/MNT/"  "data/q"  "src"  "L1-L2"  "FILE-"
      <<"/", "m", "n", "t", "/", "d", "a", "t", "a", "/">>, <<"/", "M", "N", "T", "/">>, <<"d", "a", "t", "a", "/", "q">>, <<"DAGGER">>, <<"s", "r", "c">>, <<"L", "1", "-", "L", "2">>, <<"F", "I", "L", "E", "-">> }

RECURSIVE Concat(_)
Concat(ps) == IF ps = <<>> THEN <<>> ELSE Head(ps) \o Concat(Tail(ps))

ScrubInputs ==
    {None} \cup {Concat(ps) : ps \in UNION {[1..n -> Pieces] : n \in 0..MaxPieces}}

InitScrub ==
    /\ text \in ScrubInputs
    /\ passes = 0
    /\ file = NoFile /\ clock = 0 /\ log = <<>>
    /\ pc = [c \in Clients |-> "idle"]
    /\ frame = [c \in Clients |-> NoFrame]
    /\ running = Nobody

ScrubPass ==
    /\ passes < MaxPasses
    /\ text' = frost_scrub(text)
    /\ passes' = passes + 1
    /\ UNCHANGED <<file, clock, log, pc, frame, running>>

NextScrub == ScrubPass

SpecScrub == InitScrub /\ [][NextScrub]_vars

\* C10: one pass of frost_scrub leaves a string that a further pass does not
\* change (scrub(scrub(x)) = scrub(x)) and in which no artifact pattern
\* matches, and the scrub of None is the empty string.
ScrubIdempotent ==
    /\ passes >= 1 =>
          /\ frost_scrub(text) = text
          /\ \A i \in DOMAIN text : FROST_REGEX(text, i) = 0
    /\ frost_scrub(None) = <<>>

(***************************************************************************)
(* The dump of the journal (specification SpecJournal): turns of a fresh   *)
(* session that pause, resume, ask for the journal and leave brackets in   *)
(* it.                                                                     *)
(***************************************************************************)
MaxSaid == 4

\* "pause"  "Resume..."  "journal"  "[b"  "journal]"
JournalInputs == {None, <<"p", "a", "u", "s", "e">>, <<"R", "e", "s", "u", "m", "e", ".", ".", ".">>, <<"j", "o", "u", "r", "n", "a", "l">>, <<"[", "b">>, <<"j", "o", "u", "r", "n", "a", "l", "]">>}

\* one POST /saga of the journal session
Say(input) ==
    /\ Len(log) < MaxSaid
    /\ Handled(file, saga_turn(file, input, clock + 1, DiskEmpty, NoFault))
    /\ clock' = clock + 1
    /\ UNCHANGED <<pc, frame, running, text, passes>>

NextJournal == \E input \in JournalInputs : Say(input)

SpecJournal == Init /\ [][NextJournal]_vars

(***************************************************************************)
(* Dispatch (specification SpecDispatch): the server starts on the         *)
(* memory.json an earlier run left, and turns of every command kind are    *)
(* handled on a disk where the text files are there or not.                *)
(***************************************************************************)
MaxProbes == 1

\* memory.json after the server handled these inputs one after the other
RECURSIVE Played(_)
Played(inputs) ==
    IF inputs = <<>> THEN NoFile
    ELSE saga_turn(Played(SubSeq(inputs, 1, Len(inputs) - 1)),
                   inputs[Len(inputs)], Len(inputs), DiskEmpty, NoFault).file

\* a memory.json whose reserved scars list was filled from outside
\* "old wound"
Scarred(f) == JsonFile([load_memory(f) EXCEPT !.scars = <<<<"o", "l", "d", " ", "w", "o", "u", "n", "d">>>>])

\* fresh; bound, with scars; paused; bound and paused; bound and begun
StartFiles ==
    \* "Drocathmor."  "pause"
    { NoFile, Scarred(Played(<<<<"D", "r", "o", "c", "a", "t", "h", "m", "o", "r", ".">>>>)), Played(<<<<"p", "a", "u", "s", "e">>>>),
      \* "Drocathmor."  "pause"  "dreknoth"  "begin"
      Played(<<<<"D", "r", "o", "c", "a", "t", "h", "m", "o", "r", ".">>, <<"p", "a", "u", "s", "e">>>>), Played(<<<<"d", "r", "e", "k", "n", "o", "t", "h">>, <<"b", "e", "g", "i", "n">>>>) }

ProbeInputs ==
    \* "Drocathmor."  "dreknoth"  "begin"  "pause"  "Resume..."
    { None, <<"D", "r", "o", "c", "a", "t", "h", "m", "o", "r", ".">>, <<"d", "r", "e", "k", "n", "o", "t", "h">>, <<"b", "e", "g", "i", "n">>, <<"p", "a", "u", "s", "e">>, <<"R", "e", "s", "u", "m", "e", ".", ".", ".">>,
      \* "resume now"  "resume."  "beginning"
      <<"r", "e", "s", "u", "m", "e", " ", "n", "o", "w">>, <<"r", "e", "s", "u", "m", "e", ".">>, <<"b", "e", "g", "i", "n", "n", "i", "n", "g">>,
      \* "covenant"  "commands"  "COMMANDS now"  "journal"
      <<"c", "o", "v", "e", "n", "a", "n", "t">>, <<"c", "o", "m", "m", "a", "n", "d", "s">>, <<"C", "O", "M", "M", "A", "N", "D", "S", " ", "n", "o", "w">>, <<"j", "o", "u", "r", "n", "a", "l">>,
      \* "npc eirlys"  "npc bob"  "npc [x]"  "npc"
      <<"n", "p", "c", " ", "e", "i", "r", "l", "y", "s">>, <<"n", "p", "c", " ", "b", "o", "b">>, <<"n", "p", "c", " ", "[", "x", "]">>, <<"n", "p", "c">>,
      \* "abilities Drocathmor"  "abilities Dreknoth"  "abilities [x]"  "abilities"
      <<"a", "b", "i", "l", "i", "t", "i", "e", "s", " ", "D", "r", "o", "c", "a", "t", "h", "m", "o", "r">>, <<"a", "b", "i", "l", "i", "t", "i", "e", "s", " ", "D", "r", "e", "k", "n", "o", "t", "h">>, <<"a", "b", "i", "l", "i", "t", "i", "e", "s", " ", "[", "x", "]">>, <<"a", "b", "i", "l", "i", "t", "i", "e", "s">>,
      \* "character "DROCATHMOR""  "character [x]"  "character"  "hello"
      <<"c", "h", "a", "r", "a", "c", "t", "e", "r", " ", "\"", "D", "R", "O", "C", "A", "T", "H", "M", "O", "R", "\"">>, <<"c", "h", "a", "r", "a", "c", "t", "e", "r", " ", "[", "x", "]">>, <<"c", "h", "a", "r", "a", "c", "t", "e", "r">>, <<"h", "e", "l", "l", "o">>,
      \* "world"  "NPC  Eirlys"  "Commands."  "character Thayren"  "abilities bob"
      <<"w", "o", "r", "l", "d">>, <<"N", "P", "C", " ", " ", "E", "i", "r", "l", "y", "s">>, <<"C", "o", "m", "m", "a", "n", "d", "s", ".">>, <<"c", "h", "a", "r", "a", "c", "t", "e", "r", " ", "T", "h", "a", "y", "r", "e", "n">>, <<"a", "b", "i", "l", "i", "t", "i", "e", "s", " ", "b", "o", "b">> }

\* every text file is there and none can be read
DiskUnreadable == [n \in DiskNames |-> [state |-> "unreadable", text |-> <<>>]]

\* no text file was asked for
NoDisk == [n \in DiskNames |-> [state |-> "unused", text |-> <<>>]]

\* the disks a turn can find, by name
ProbeDisks == {"full", "empty", "unreadable"}

TextFiles(name) ==
    CASE name = "full"       -> DiskFull
      [] name = "empty"      -> DiskEmpty
      [] name = "unreadable" -> DiskUnreadable
      [] OTHER               -> NoDisk

\* the branches that call load_file_text
Lookups == {"canon", "npc", "abilities", "character"}

\* a turn that loaded the file `before` ends with result r; the log keeps the
\* name of the disk the turn read its text from, if it read any
Probed(before, r, disk) ==
    /\ file' = r.file
    /\ log' = Append(log, [disk |-> IF r.branch \in Lookups THEN disk ELSE "unused"]
                          @@ Entry(before, r))

\* one POST /saga on the disk
Probe(input, disk) ==
    /\ Len(log) < MaxProbes
    /\ Probed(file, saga_turn(file, input, clock + 1, TextFiles(disk), NoFault), disk)
    /\ clock' = clock + 1
    /\ UNCHANGED <<pc, frame, running, text, passes>>

InitDispatch ==
    /\ file \in StartFiles
    /\ clock = 0
    /\ log = <<>>
    /\ pc = [c \in Clients |-> "idle"]
    /\ frame = [c \in Clients |-> NoFrame]
    /\ running = Nobody
    /\ text = <<>>
    /\ passes = 0

NextDispatch == \E input \in ProbeInputs, disk \in ProbeDisks : Probe(input, disk)

SpecDispatch == InitDispatch /\ [][NextDispatch]_vars

(***************************************************************************)
(* Properties of the dispatch (specification SpecDispatch).                *)
(***************************************************************************)
Kinds == {"abilities", "character"}

\* the input is `abilities <name>` or `character <name>` (case-folded
\* prefix, single space)
IsGatedLookup(player_input, kind) ==
    startswith(lower(player_input),
               \* "abilities "  "character "
               IF kind = "abilities" THEN <<"a", "b", "i", "l", "i", "t", "i", "e", "s", " ">> ELSE <<"c", "h", "a", "r", "a", "c", "t", "e", "r", " ">>)

\* the <name> of `abilities <name>` or `character <name>`: what follows the
\* ten characters of the prefix
Named(player_input) == SubSeq(player_input, 11, Len(player_input))

\* the text file of roster name n for a kind
Sheet(n, kind) ==
    IF kind = "abilities" THEN SOULBOUND_FILES[n].abilities
    ELSE SOULBOUND_FILES[n].character

\* "abilities"  "character sheet"
SheetLabel(kind) == IF kind = "abilities" THEN <<"a", "b", "i", "l", "i", "t", "i", "e", "s">> ELSE <<"c", "h", "a", "r", "a", "c", "t", "e", "r", " ", "s", "h", "e", "e", "t">>

\* a text file as a response serves it
Served(disk, path, label) == frost_scrub(load_file_text(disk, path, label))

DeniesMsg(kind, bound) ==
    IF kind = "abilities" THEN DeniesAbilitiesMsg(bound) ELSE DeniesCharacterMsg(bound)

\* the turn left the record as loaded but for the journal append
OnlyJournaled ==
    Persisted = [Before EXCEPT !.journal = Journaled(@, Last.player_input)]

\* C11: on a session that is not paused, `abilities <name>` or
\* `character <name>` answers "the frost waits" when no soulbound is set,
\* "the frost denies you" with the soulbound's name when <name> is not a name
\* token of the soulbound (any letter case), and else serves the soulbound's
\* abilities or character text; the turn changes nothing but the journal, and
\* the response is never the text of another roster name.
GatedLookupOutcomes ==
    (log # <<>> /\ ~Before.paused) =>
        \A kind \in Kinds :
            IsGatedLookup(Last.player_input, kind) =>
                /\ Last.status = "ok"
                /\ OnlyJournaled
                /\ Before.soulbound = None => Last.response = WaitsMsg
                /\ ( /\ Before.soulbound # None
                     /\ ~IsNameOf(Named(Last.player_input), lower(Before.soulbound)) )
                      => Last.response = DeniesMsg(kind, Before.soulbound)
                /\ ( /\ Before.soulbound # None
                     /\ IsNameOf(Named(Last.player_input), lower(Before.soulbound)) )
                      => Last.response
                           = Served(TextFiles(Last.disk), Sheet(lower(Before.soulbound), kind),
                                    SheetLabel(kind))
                /\ \A n \in Roster, k \in Kinds :
                      (Before.soulbound = None \/ n # lower(Before.soulbound))
                         => Last.response # Served(DiskFull, Sheet(n, k), SheetLabel(k))

\* on a session bound to Drocathmor, the abilities of another roster name
\* were asked for and denied
GatedLookupOutcomesWitness ==
    /\ Len(log) = 1
    \* "Drocathmor"
    /\ Before.soulbound = <<"D", "r", "o", "c", "a", "t", "h", "m", "o", "r">>
    /\ ~Before.paused
    \* "abilities Dreknoth"
    /\ Last.player_input = <<"a", "b", "i", "l", "i", "t", "i", "e", "s", " ", "D", "r", "e", "k", "n", "o", "t", "h">>
    \* "Drocathmor"
    /\ Last.response = DeniesAbilitiesMsg(<<"D", "r", "o", "c", "a", "t", "h", "m", "o", "r">>)

\* C12: on a session that is not paused, every input that starts with
\* `commands` (case-folded) returns the fixed help text.
HelpListing ==
    ( /\ log # <<>>
      /\ ~Before.paused
      \* "commands"
      /\ startswith(lower(Last.player_input), <<"c", "o", "m", "m", "a", "n", "d", "s">>) )
        => Last.response = CommandsMsg

\* C12, amended: on a session that is not paused, every input that starts
\* with `commands` (case-folded) and is more than the word `commands` returns
\* the fixed help text and changes nothing but the journal; the word
\* `commands` alone is a canon key and returns the canon text of that key
\* (or its placeholder).
HelpListingButCanonKey ==
    ( /\ log # <<>>
      /\ ~Before.paused
      \* "commands"
      /\ startswith(lower(Last.player_input), <<"c", "o", "m", "m", "a", "n", "d", "s">>) )
        => /\ Last.status = "ok"
           /\ OnlyJournaled
           \* "commands"
           /\ lower(Last.player_input) # <<"c", "o", "m", "m", "a", "n", "d", "s">> => Last.response = CommandsMsg
           \* "commands"
           /\ lower(Last.player_input) = <<"c", "o", "m", "m", "a", "n", "d", "s">> =>
                 /\ Last.disk \in ProbeDisks
                 /\ Last.response
                      \* "Project Command Sheet.txt"
                      = Served(TextFiles(Last.disk), <<"P", "r", "o", "j", "e", "c", "t", " ", "C", "o", "m", "m", "a", "n", "d", " ", "S", "h", "e", "e", "t", ".", "t", "x", "t">>,
                               \* "commands"
                               <<"c", "o", "m", "m", "a", "n", "d", "s">>)

\* an input that starts with `commands` and goes on was answered with the
\* help text
HelpListingButCanonKeyWitness ==
    /\ Len(log) = 1
    /\ ~Before.paused
    \* "COMMANDS now"
    /\ Last.player_input = <<"C", "O", "M", "M", "A", "N", "D", "S", " ", "n", "o", "w">>
    /\ Last.response = CommandsMsg

\* the placeholder for a text that is not there, and for one that cannot be read
\* "(The frost remembers no "  " here.)"
MissingMsg(label) == <<"(", "T", "h", "e", " ", "f", "r", "o", "s", "t", " ", "r", "e", "m", "e", "m", "b", "e", "r", "s", " ", "n", "o", " ">> \o label \o <<" ", "h", "e", "r", "e", ".", ")">>

\* "(The frost cannot read the "  ".)"
UnreadableMsg(label) == <<"(", "T", "h", "e", " ", "f", "r", "o", "s", "t", " ", "c", "a", "n", "n", "o", "t", " ", "r", "e", "a", "d", " ", "t", "h", "e", " ">> \o label \o <<".", ")">>

\* the turn read the text file `path` from its disk; if the file is not
\* there or cannot be read the turn still ends in a response, which is the
\* placeholder for the label, and in any case the turn changes nothing but
\* the journal
PlaceholderIfMissing(path, label) ==
    /\ Last.status = "ok"
    /\ OnlyJournaled
    /\ Last.disk \in ProbeDisks
    /\ TextFiles(Last.disk)[path].state = "absent" => Last.response = MissingMsg(label)
    /\ TextFiles(Last.disk)[path].state = "unreadable" => Last.response = UnreadableMsg(label)

\* the <name> of `npc <name>`, case-folded and trimmed
NpcNamed(player_input) == strip(SubSeq(lower(player_input), 5, Len(player_input)))

\* C13: on a session that is not paused, a canon key, `npc <name>`,
\* `abilities <name>` or `character <name>` whose text is not on the disk or
\* cannot be read, or whose <name> is not in the NPC registry, ends in a
\* response that is a themed placeholder, never in an error, and the turn
\* leaves the record as a lookup that found its text does: only the journal
\* has grown.
MissingContentIsNarrated ==
    (log # <<>> /\ ~Before.paused) =>
        \* "covenant"  "world"  "flora"  "commands"
        /\ \A key \in {<<"c", "o", "v", "e", "n", "a", "n", "t">>, <<"w", "o", "r", "l", "d">>, <<"f", "l", "o", "r", "a">>, <<"c", "o", "m", "m", "a", "n", "d", "s">>} :
              lower(Last.player_input) = key =>
                 PlaceholderIfMissing(CANON_FILES[key], key)
        \* "npc "
        /\ startswith(lower(Last.player_input), <<"n", "p", "c", " ">>) =>
              \* "eirlys"
              IF NpcNamed(Last.player_input) = <<"e", "i", "r", "l", "y", "s">>
              \* "Eirlys_Character_Sheet.txt"  "NPC eirlys"
              THEN PlaceholderIfMissing(<<"E", "i", "r", "l", "y", "s", "_", "C", "h", "a", "r", "a", "c", "t", "e", "r", "_", "S", "h", "e", "e", "t", ".", "t", "x", "t">>, <<"N", "P", "C", " ", "e", "i", "r", "l", "y", "s">>)
              ELSE /\ Last.status = "ok"
                   /\ OnlyJournaled
                   /\ Last.response = NoNpcMsg(NpcNamed(Last.player_input))
        /\ \A kind \in Kinds :
              ( /\ IsGatedLookup(Last.player_input, kind)
                /\ Before.soulbound # None
                /\ IsNameOf(Named(Last.player_input), lower(Before.soulbound)) )
                 => PlaceholderIfMissing(Sheet(lower(Before.soulbound), kind),
                                         SheetLabel(kind))

\* the soulbound's character sheet was asked for and cannot be read
MissingContentIsNarratedWitness ==
    /\ Len(log) = 1
    /\ ~Before.paused
    \* "Drocathmor"
    /\ Before.soulbound = <<"D", "r", "o", "c", "a", "t", "h", "m", "o", "r">>
    /\ IsGatedLookup(Last.player_input, "character")
    /\ Last.disk = "unreadable"
    \* "character sheet"
    /\ Last.response = UnreadableMsg(<<"c", "h", "a", "r", "a", "c", "t", "e", "r", " ", "s", "h", "e", "e", "t">>)
    /\ Last.status = "ok"

\* the branches of the dispatch, in the order of precedence
Precedence ==
    << "gate", "name", "begin", "pause", "resume", "canon", "npc", "journal",
       "help", "lookup", "echo" >>

\* the predicate of each branch, on the record as loaded and the sanitized input
Matches(class, mem, player_input) ==
    CASE class = "gate"    -> mem.paused /\ ~StartsWithResumeOrBegin(player_input)
      [] class = "name"    -> \E n \in Roster : IsNameOf(player_input, n)
      [] class = "begin"   -> IsBeginCmd(player_input)
      [] class = "pause"   -> IsPauseCmd(player_input)
      [] class = "resume"  -> IsResumeCmd(player_input)
      \* "covenant"  "world"  "flora"  "commands"
      [] class = "canon"   -> lower(player_input) \in {<<"c", "o", "v", "e", "n", "a", "n", "t">>, <<"w", "o", "r", "l", "d">>, <<"f", "l", "o", "r", "a">>, <<"c", "o", "m", "m", "a", "n", "d", "s">>}
      \* "npc "
      [] class = "npc"     -> startswith(lower(player_input), <<"n", "p", "c", " ">>)
      \* "journal"
      [] class = "journal" -> startswith(lower(player_input), <<"j", "o", "u", "r", "n", "a", "l">>)
      \* "commands"
      [] class = "help"    -> startswith(lower(player_input), <<"c", "o", "m", "m", "a", "n", "d", "s">>)
      [] class = "lookup"  -> \E kind \in Kinds : IsGatedLookup(player_input, kind)
      [] class = "echo"    -> TRUE

\* the first branch in the order whose predicate matches
FirstMatching(mem, player_input) ==
    Precedence[CHOOSE i \in DOMAIN Precedence :
                  /\ Matches(Precedence[i], mem, player_input)
                  /\ \A j \in 1..(i - 1) : ~Matches(Precedence[j], mem, player_input)]

\* the branch a handler's return statement belongs to
BranchOf(label) ==
    CASE label \in {"bind", "already", "reject"} -> "name"
      [] label \in {"npc", "no_npc"} -> "npc"
      [] label = "commands" -> "help"
      [] label \in {"waits", "denies", "abilities", "character"} -> "lookup"
      [] OTHER -> label

\* the response is one that this branch gives
AnswersAs(class) ==
    CASE class = "gate"    -> Last.response = PausedMsg
      [] class = "name"    ->
            \E n \in Roster :
                Last.response \in {SealsMsg(capitalize(n)), AlreadyMsg(capitalize(n)),
                                   RejectsMsg(capitalize(n))}
      [] class = "begin"   -> Last.response = BeginMsg
      [] class = "pause"   -> Last.response = PauseMsg
      [] class = "resume"  -> Last.response = ResumeMsg
      [] class = "canon"   ->
            /\ Last.disk \in ProbeDisks
            /\ Last.response
                 = Served(TextFiles(Last.disk), CANON_FILES[lower(Last.player_input)],
                          lower(Last.player_input))
      [] class = "npc"     ->
            \/ Last.response = frost_scrub(NoNpcMsg(NpcNamed(Last.player_input)))
            \/ /\ Last.disk \in ProbeDisks
               /\ Last.response
                    \* "Eirlys_Character_Sheet.txt"  "NPC eirlys"
                    = Served(TextFiles(Last.disk), <<"E", "i", "r", "l", "y", "s", "_", "C", "h", "a", "r", "a", "c", "t", "e", "r", "_", "S", "h", "e", "e", "t", ".", "t", "x", "t">>, <<"N", "P", "C", " ", "e", "i", "r", "l", "y", "s">>)
      \* "\n"
      [] class = "journal" -> Last.response = frost_scrub(join(<<"\n">>, Persisted.journal))
      [] class = "help"    -> Last.response = CommandsMsg
      [] class = "lookup"  ->
            \/ Last.response = WaitsMsg
            \/ \E kind \in Kinds :
                  \/ Last.response = DeniesMsg(kind, Before.soulbound)
                  \/ /\ Last.disk \in ProbeDisks
                     /\ Before.soulbound # None
                     /\ Last.response
                          = Served(TextFiles(Last.disk),
                                   Sheet(lower(Before.soulbound), kind), SheetLabel(kind))
      [] class = "echo"    -> Last.response = frost_scrub(EchoMsg(Last.player_input))

\* C14: whatever the session state and the sanitized input, the turn is
\* handled by exactly one branch, the first in the order pause gate, name
\* token, begin, pause, resume, canon, NPC, journal, help, abilities or
\* character, echo whose predicate matches: the handler returned from that
\* branch, with a response of that branch, and no branch after it has run.
DispatchPrecedence ==
    log # <<>> =>
        /\ Last.status = "ok"
        /\ BranchOf(Last.branch) = FirstMatching(Before, Last.player_input)
        /\ AnswersAs(FirstMatching(Before, Last.player_input))
        /\ FirstMatching(Before, Last.player_input)
             \in {"gate", "canon", "npc", "journal", "help", "lookup", "echo"}
              => NonJournal(Persisted) = NonJournal(Before)

\* an input that matches two predicates went to the earlier branch: a
\* `journal` given while paused went to the gate, not to the dump
DispatchPrecedenceWitness ==
    /\ Len(log) = 1
    /\ Before.paused
    \* "journal"
    /\ Last.player_input = <<"j", "o", "u", "r", "n", "a", "l">>
    /\ Matches("journal", Before, Last.player_input)
    /\ Last.response = PausedMsg

(***************************************************************************)
(* Properties of the journal dump (specification SpecJournal).             *)
(***************************************************************************)
\* the sanitized non-empty inputs of all turns so far, in order
Said ==
    LET said == SelectSeq(log, LAMBDA e : e.player_input # <<>>)
    IN  [i \in DOMAIN said |-> said[i].player_input]

\* "journal"
IsDumpCmd(player_input) == startswith(lower(player_input), <<"j", "o", "u", "r", "n", "a", "l">>)

\* C15: on a session that is not paused, an input that starts with `journal`
\* returns the journal entries joined by newline, in order, and these are the
\* sanitized non-empty inputs of all turns so far, gated turns included;
\* given while paused it returns the pause-gate message.
JournalDump ==
    (log # <<>> /\ IsDumpCmd(Last.player_input)) =>
        /\ Persisted.journal = Said
        \* "\n"
        /\ Last.response = IF Before.paused THEN PausedMsg ELSE join(<<"\n">>, Said)

\* C15, amended: on a session that is not paused, an input that starts with
\* `journal` returns the scrub of the journal entries joined by newline, in
\* order (the joined entries themselves unless the scrub removes an artifact
\* that the join put together), and these entries are the sanitized
\* non-empty inputs of all turns so far, gated turns included; given while
\* paused it returns the pause-gate message.
JournalDumpScrubbed ==
    (log # <<>> /\ IsDumpCmd(Last.player_input)) =>
        /\ Last.status = "ok"
        /\ Persisted.journal = Said
        /\ Last.response = IF Before.paused THEN PausedMsg
                           \* "\n"
                           ELSE frost_scrub(join(<<"\n">>, Said))

\* pause, a `journal` that the gate answered, resume, and a `journal` that
\* dumps all four inputs
JournalDumpScrubbedWitness ==
    /\ Len(log) = 4
    \* "journal"
    /\ log[2].player_input = <<"j", "o", "u", "r", "n", "a", "l">>
    /\ log[2].response = PausedMsg
    /\ ~Before.paused
    \* "journal"
    /\ Last.player_input = <<"j", "o", "u", "r", "n", "a", "l">>
    \* "pause\njournal\nResume...\njournal"
    /\ Last.response = <<"p", "a", "u", "s", "e", "\n", "j", "o", "u", "r", "n", "a", "l", "\n", "R", "e", "s", "u", "m", "e", ".", ".", ".", "\n", "j", "o", "u", "r", "n", "a", "l">>

(***************************************************************************)
(* More properties of the dispatch (specification SpecDispatch).           *)
(***************************************************************************)
\* a command prefix with no token after it, with or without the one space
\* that sanitizing can leave
IsBarePrefix(player_input) ==
    lower(player_input)
        \* "abilities"  "abilities "  "character"  "character "  "npc"  "npc "
        \in {<<"a", "b", "i", "l", "i", "t", "i", "e", "s">>, <<"a", "b", "i", "l", "i", "t", "i", "e", "s", " ">>, <<"c", "h", "a", "r", "a", "c", "t", "e", "r">>, <<"c", "h", "a", "r", "a", "c", "t", "e", "r", " ">>, <<"n", "p", "c">>, <<"n", "p", "c", " ">>}

\* C16: in every session state, an input that is `abilities`, `character` or
\* `npc` with no token after it, with or without one trailing space, ends
\* the turn in a response that is one of the handler's messages, never in an
\* error, and the turn changes nothing but the journal.
BarePrefixIsAnswered ==
    (log # <<>> /\ IsBarePrefix(Last.player_input)) =>
        /\ Last.status = "ok"
        /\ Last.response
             \in { PausedMsg, WaitsMsg, NoNpcMsg(<<>>), EchoMsg(Last.player_input) }
                 \cup {DeniesMsg(kind, Before.soulbound) : kind \in Kinds}
        /\ OnlyJournaled

\* on a bound session, `abilities ` with nothing after its space was denied
BarePrefixIsAnsweredWitness ==
    /\ Len(log) = 1
    \* "Drocathmor"
    /\ Before.soulbound = <<"D", "r", "o", "c", "a", "t", "h", "m", "o", "r">>
    /\ ~Before.paused
    \* "abilities "
    /\ Last.player_input = <<"a", "b", "i", "l", "i", "t", "i", "e", "s", " ">>
    \* "Drocathmor"
    /\ Last.response = DeniesAbilitiesMsg(<<"D", "r", "o", "c", "a", "t", "h", "m", "o", "r">>)

\* the turn is one that only reads the record: its branch is a lookup, the
\* dump, the help listing or the echo, or it is a name token that is rejected
ReadsOnly(mem, player_input) ==
    \/ FirstMatching(mem, player_input)
          \in {"canon", "npc", "journal", "help", "lookup", "echo"}
    \/ /\ FirstMatching(mem, player_input) = "name"
       /\ mem.soulbound # None
       /\ ~IsNameOf(player_input, lower(mem.soulbound))

\* C17: a turn handled by the canon or NPC lookup, the journal dump, the help
\* listing, the abilities or character lookup, the echo or a name-token
\* rejection leaves soulbound, paused, rebind_count and last_rebind_at as
\* they were; and no turn of any kind changes scars: every record loaded so
\* far and the record persisted now hold the same scars.
ReadOnlyFrame ==
    /\ (log # <<>> /\ ReadsOnly(Before, Last.player_input)) =>
          /\ Persisted.soulbound = Before.soulbound
          /\ Persisted.paused = Before.paused
          /\ Persisted.rebind_count = Before.rebind_count
          /\ Persisted.last_rebind_at = Before.last_rebind_at
    /\ \A i \in DOMAIN log : load_memory(log[i].before).scars = Persisted.scars

\* a session that was loaded with scars had another roster name rejected:
\* the record was saved and its scars are as loaded
ReadOnlyFrameWitness ==
    /\ Len(log) = 1
    \* "old wound"
    /\ Before.scars = <<<<"o", "l", "d", " ", "w", "o", "u", "n", "d">>>>
    \* "dreknoth"
    /\ IsNameOf(Last.player_input, <<"d", "r", "e", "k", "n", "o", "t", "h">>)
    \* "Drocathmor"
    /\ Last.response = RejectsMsg(<<"D", "r", "o", "c", "a", "t", "h", "m", "o", "r">>)
    /\ Last.writes = 1
    \* "old wound"
    /\ Persisted.scars = <<<<"o", "l", "d", " ", "w", "o", "u", "n", "d">>>>

\* C18: on a turn that starts paused, a field other than the journal changes
\* exactly when the input is begin, begin..., resume or resume... (any letter
\* case); an input that passes the gate by its prefix only is answered by
\* the echo and leaves paused true; and the turn never sets or changes
\* soulbound.
PausedOnlyLifecycle ==
    (log # <<>> /\ Before.paused) =>
        /\ Last.status = "ok"
        /\ (NonJournal(Persisted) # NonJournal(Before))
              <=> (IsBeginCmd(Last.player_input) \/ IsResumeCmd(Last.player_input))
        /\ ( /\ StartsWithResumeOrBegin(Last.player_input)
             /\ ~IsBeginCmd(Last.player_input)
             /\ ~IsResumeCmd(Last.player_input) )
              => /\ Last.branch = "echo"
                 /\ Last.response = frost_scrub(EchoMsg(Last.player_input))
                 /\ Persisted.paused
        /\ Persisted.soulbound = Before.soulbound

\* on a paused session with no soulbound, a roster name was gated and bound
\* nothing
PausedOnlyLifecycleWitness ==
    /\ Len(log) = 1
    /\ Before.paused
    /\ Before.soulbound = None
    \* "dreknoth"
    /\ IsNameOf(Last.player_input, <<"d", "r", "e", "k", "n", "o", "t", "h">>)
    /\ Last.response = PausedMsg
    /\ Persisted.soulbound = None

(***************************************************************************)
(* More properties of the journal dump (specification SpecJournal).        *)
(***************************************************************************)
\* the last line of a text is the string s
LastLineIs(t, s) ==
    /\ Len(t) >= Len(s)
    /\ SubSeq(t, Len(t) - Len(s) + 1, Len(t)) = s
    /\ Len(t) > Len(s) => t[Len(t) - Len(s)] = "\n"

\* the turn was handled by the journal dump
Dumps == log # <<>> /\ ~Before.paused /\ IsDumpCmd(Last.player_input)

\* C19: every response of the journal dump has the turn's own input as its
\* last entry, so the journal is not empty when the dump runs and the
\* response is never the "no words yet" placeholder.
DumpEndsWithOwnInput ==
    Dumps =>
        /\ LastLineIs(Last.response, Last.player_input)
        /\ Persisted.journal # <<>>
        /\ Last.response # NoWordsMsg

\* C19, amended: every journal dump is taken of a journal whose last entry
\* is the turn's own input, so the journal is not empty when the dump runs
\* and the dump never falls back on the "no words yet" placeholder: the
\* response is the scrub of the joined journal (which can drop text, the last
\* entry included).
DumpOfOwnInput ==
    Dumps =>
        /\ Before.journal \o <<Last.player_input>> = Persisted.journal
        /\ Persisted.journal[Len(Persisted.journal)] = Last.player_input
        \* "\n"
        /\ join(<<"\n">>, Persisted.journal) # <<>>
        \* "\n"
        /\ Last.response = frost_scrub(join(<<"\n">>, Persisted.journal))
        /\ Last.branch = "journal"

\* the first turn of a session asks for the journal and gets its own input
DumpOfOwnInputWitness ==
    /\ Len(log) = 1
    /\ Before.journal = <<>>
    \* "journal"
    /\ Last.player_input = <<"j", "o", "u", "r", "n", "a", "l">>
    \* "journal"
    /\ Last.response = <<"j", "o", "u", "r", "n", "a", "l">>

=============================================================================
